---- MODULE Spec2Model ----
(***************************************************************************)
(* A model of the transcript-aligned segmentation engine of segment.py:    *)
(* create_transcript_aligned_segments and the helpers it calls.            *)
(*                                                                         *)
(* Text is a sequence of one-character strings, so that trimming, joining  *)
(* and key sanitising are computed and not assumed.  Times are integers    *)
(* (one unit is one tick of the caption clock); the code's floats are not  *)
(* rounded by the operations modelled here (max, +, <, <=, >=).            *)
(***************************************************************************)
EXTENDS Integers, Sequences, FiniteSets, TLC

(* ------------------------------ bounds --------------------------------- *)
\* Entries per caption file.
MaxEntries == 2
\* Largest workers argument of a call (0 is the invalid value).
MaxWorkers == 2
\* Calls of create_transcript_aligned_segments over one output root.
MaxRuns == 2
\* Items of the summary's "available" list.
MaxAvailable == 2

(* --------------------------- text helpers ------------------------------ *)
\* str.strip(chars): drop leading and trailing characters of the set.
RECURSIVE LStripOf(_, _)
LStripOf(s, cs) ==
    IF Len(s) > 0 /\ Head(s) \in cs THEN LStripOf(Tail(s), cs) ELSE s

RECURSIVE RStripOf(_, _)
RStripOf(s, cs) ==
    IF Len(s) > 0 /\ s[Len(s)] \in cs
    THEN RStripOf(SubSeq(s, 1, Len(s) - 1), cs)
    ELSE s

StripOf(s, cs) == RStripOf(LStripOf(s, cs), cs)

Whitespace == {" "}

\* str.strip()
Strip(s) == StripOf(s, Whitespace)

\* sep.join(texts)
RECURSIVE Join(_, _)
Join(texts, sep) ==
    IF Len(texts) = 0 THEN << >>
    ELSE IF Len(texts) = 1 THEN texts[1]
    ELSE texts[1] \o sep \o Join(Tail(texts), sep)

DigitChars == <<"0", "1", "2", "3", "4", "5", "6", "7", "8", "9">>

\* str(n) for n >= 0
RECURSIVE Decimal(_)
Decimal(n) ==
    IF n < 10 THEN <<DigitChars[n + 1]>>
    ELSE Decimal(n \div 10) \o <<DigitChars[(n % 10) + 1]>>

RECURSIVE ZeroPad(_, _)
ZeroPad(s, width) ==
    IF Len(s) >= width THEN s ELSE ZeroPad(<<"0">> \o s, width)

\* f"{kept_index:06d}"
Fmt06d(n) == ZeroPad(Decimal(n), 6)

\* The characters the pattern [^A-Za-z0-9_.-] leaves alone.
KeyChars ==
    {"a", "b", "c", "d", "e", "f", "g", "h", "i", "j", "k", "l", "m",
     "n", "o", "p", "q", "r", "s", "t", "u", "v", "w", "x", "y", "z",
     "A", "B", "C", "D", "E", "F", "G", "H", "I", "J", "K", "L", "M",
     "N", "O", "P", "Q", "R", "S", "T", "U", "V", "W", "X", "Y", "Z",
     "0", "1", "2", "3", "4", "5", "6", "7", "8", "9", "_", ".", "-"}

\* re.sub(r"[^A-Za-z0-9_.-]+", "_", s): each run of other characters
\* becomes one underscore.
RECURSIVE SubRuns(_, _)
SubRuns(s, inRun) ==
    IF Len(s) = 0 THEN << >>
    ELSE IF Head(s) \in KeyChars THEN <<Head(s)>> \o SubRuns(Tail(s), FALSE)
    ELSE IF inRun THEN SubRuns(Tail(s), TRUE)
    ELSE <<"_">> \o SubRuns(Tail(s), TRUE)

StrTrack == <<"t", "r", "a", "c", "k">>
StrDefault == <<"d", "e", "f", "a", "u", "l", "t">>
StrUnknown == <<"u", "n", "k", "n", "o", "w", "n">>
StrAutoTarget == <<"a", "u", "t", "o", "_", "t", "a", "r", "g", "e", "t", "_">>
StrAuto == <<"a", "u", "t", "o", "_">>
StrManual == <<"m", "a", "n", "u", "a", "l", "_">>

_safe_track_key(value) ==
    LET key == StripOf(SubRuns(Strip(value), FALSE), {"_"})
    IN  IF Len(key) = 0 THEN StrTrack ELSE key

(* --------------------------- the track loader -------------------------- *)
\* A caption file is a JSON value: kind "list" with its items, or any other
\* JSON value.  An item is a JSON object (isdict) with text, start and
\* duration, or some other JSON value.  A key an object lacks reads as its
\* default ("", 0.0, 0.0), which the item universe holds as values.
\* Lines 27-28.
ClampDuration_none(duration) == duration

ClampDuration(duration) == IF duration < 0 THEN 0 ELSE duration

RECURSIVE LoadItems(_)
LoadItems(data) ==
    IF Len(data) = 0 THEN << >>
    ELSE LET entry == Head(data)
         IN  IF ~entry.isdict THEN LoadItems(Tail(data))
             ELSE <<[text |-> Strip(entry.text),
                     start |-> entry.start,
                     duration |-> ClampDuration(entry.duration)]>>
                  \o LoadItems(Tail(data))

_load_entries(file) ==
    IF file.kind # "list" THEN << >> ELSE LoadItems(file.items)

(* ---------------------------- window query ----------------------------- *)
\* The indices (0-based, as enumerate gives them) of the entries the loop
\* of _collect_text_in_window does not skip.
MatchedEntry_lt(entry, start, end) ==
    LET entry_start == entry.start
        entry_end == entry_start + entry.duration
    IN  /\ ~(entry_end < start \/ entry_start > end)
        /\ Len(Strip(entry.text)) > 0

MatchedEntry_anytext(entry, start, end) ==
    LET entry_start == entry.start
        entry_end == entry_start + entry.duration
    IN  ~(entry_end <= start \/ entry_start >= end)

MatchedEntry(entry, start, end) ==
    LET entry_start == entry.start
        entry_end == entry_start + entry.duration
    IN  /\ ~(entry_end <= start \/ entry_start >= end)
        /\ Len(Strip(entry.text)) > 0

RECURSIVE CollectFrom(_, _, _, _)
CollectFrom(entries, idx, start, end) ==
    IF idx >= Len(entries) THEN [texts |-> << >>, matched_indices |-> << >>]
    ELSE LET rest == CollectFrom(entries, idx + 1, start, end)
             entry == entries[idx + 1]
         IN  IF MatchedEntry(entry, start, end)
             THEN [texts |-> <<Strip(entry.text)>> \o rest.texts,
                   matched_indices |-> <<idx>> \o rest.matched_indices]
             ELSE rest

_collect_text_in_window(entries, start, end) ==
    LET got == CollectFrom(entries, 0, start, end)
    IN  [text |-> Strip(Join(got.texts, <<" ">>)),
         entry_indices |-> got.matched_indices]

(* -------------------------- track collection --------------------------- *)
\* A path that is None or "" (both fail `if not path`).
NoPath == ""
\* None, where the code holds an optional string.
NoneStr == <<"None">>

Exists(files, path) == files[path].kind # "missing"

TrackKeys(tracks) == {tracks[i].key : i \in DOMAIN tracks}

\* The while loop of add_track: the first key_<counter> not yet in tracks.
RECURSIVE SuffixedKey(_, _, _)
SuffixedKey(keys, key, counter) ==
    LET unique_key == _safe_track_key(key) \o <<"_">> \o Decimal(counter)
    IN  IF unique_key \in keys THEN SuffixedKey(keys, key, counter + 1)
        ELSE unique_key

UniqueKey_nosuffix(keys, key) == _safe_track_key(key)

UniqueKey(keys, key) ==
    IF _safe_track_key(key) \in keys THEN SuffixedKey(keys, key, 2)
    ELSE _safe_track_key(key)

add_track_unchecked(files, tracks, key, path, language_code, is_generated) ==
    IF path = NoPath THEN tracks
    ELSE Append(tracks, [key |-> UniqueKey(TrackKeys(tracks), key),
                         path |-> path,
                         language_code |-> language_code,
                         is_generated |-> is_generated])

add_track(files, tracks, key, path, language_code, is_generated) ==
    IF path = NoPath THEN tracks
    ELSE IF ~Exists(files, path) THEN tracks
    ELSE Append(tracks, [key |-> UniqueKey(TrackKeys(tracks), key),
                         path |-> path,
                         language_code |-> language_code,
                         is_generated |-> is_generated])

RECURSIVE AddAvailable(_, _, _)
AddAvailable(files, tracks, available) ==
    IF Len(available) = 0 THEN tracks
    ELSE LET item == Head(available)
             code == item.language_code
             kind == IF item.is_generated THEN StrAuto ELSE StrManual
         IN  IF ~item.isdict THEN AddAvailable(files, tracks, Tail(available))
             ELSE AddAvailable(
                      files,
                      add_track(files, tracks, kind \o code, item.path, code,
                                IF item.is_generated THEN "true" ELSE "false"),
                      Tail(available))

\* The ordered dict `tracks`, as the sequence of its items in insertion order.
_collect_transcript_tracks(files, transcript_summary) ==
    LET code == transcript_summary.auto_language_code
        t1 == add_track(files, << >>, StrDefault,
                        transcript_summary.default_path, NoneStr, "none")
        t2 == add_track(files, t1,
                        StrAutoTarget \o (IF code = NoneStr \/ Len(code) = 0
                                          THEN StrUnknown ELSE code),
                        transcript_summary.auto_language_path, code, "true")
    IN  AddAvailable(files, t2, transcript_summary.available)

(* ------------------------------ planner -------------------------------- *)
Max(a, b) == IF a >= b THEN a ELSE b

\* The test of line 196: the base entry is skipped.
Dropped_le(entry, min_dur, min_ch) ==
    entry.duration <= min_dur \/ Len(Strip(entry.text)) < min_ch

Dropped(entry, min_dur, min_ch) ==
    entry.duration < min_dur \/ Len(Strip(entry.text)) < min_ch

\* Line 197.
CountSkipped_lost(skipped) == skipped

CountSkipped(skipped) == skipped + 1

\* tracks_bundle of one segment: one item per track, in dict order.
TracksBundle(trks, entries, start, end) ==
    [i \in DOMAIN trks |->
        LET got == _collect_text_in_window(entries[i], start, end)
        IN  [key |-> trks[i].key,
             text |-> got.text,
             entry_indices |-> got.entry_indices,
             language_code |-> trks[i].language_code,
             is_generated |-> trks[i].is_generated]]

\* The item appended to prepared_segments for a kept base entry.  The paths
\* audio_path and transcript_bundle_path are functions of segment_id alone
\* (output_root/<segment_id>/audio.<format> and .../transcripts.json).
SegmentId_index(kept, base_entry_index) == Fmt06d(base_entry_index)

SegmentId_zero(kept, base_entry_index) == Fmt06d(0)

SegmentId(kept, base_entry_index) == Fmt06d(kept)

\* Lines 203-205: the paths of a segment, as path components below
\* output_root (segment_audio_format is the same for every unit of a call).
SegmentDir(segment_id) == <<segment_id>>
AudioPath(segment_id) == SegmentDir(segment_id) \o <<"audio.mp3">>
BundlePath(segment_id) == SegmentDir(segment_id) \o <<"transcripts.json">>

PreparedSegment(trks, entries, base_key, entry, base_entry_index, kept) ==
    LET text == Strip(entry.text)
        start == Max(0, entry.start)
        duration == entry.duration
        end == start + duration
    IN  [segment_id |-> SegmentId(kept, base_entry_index),
         audio_path |-> AudioPath(SegmentId(kept, base_entry_index)),
         transcript_bundle_path |->
             BundlePath(SegmentId(kept, base_entry_index)),
         start |-> start,
         duration |-> duration,
         end |-> end,
         base_track |-> base_key,
         base_entry_index |-> base_entry_index,
         base_text |-> text,
         tracks |-> TracksBundle(trks, entries, start, end)]

\* The row of index.jsonl and the bundle of transcripts.json of an item.
Row(item) ==
    [segment_id |-> item.segment_id, start |-> item.start,
     duration |-> item.duration, end |-> item.end,
     base_track |-> item.base_track, base_text |-> item.base_text]

Bundle(item) ==
    [segment_id |-> item.segment_id,
     timing |-> [start |-> item.start, duration |-> item.duration,
                 end |-> item.end, base_track |-> item.base_track,
                 base_entry_index |-> item.base_entry_index],
     tracks |-> item.tracks]

\* Line 183: "default" when loaded, else the first key of the dict.
BaseIndex_first(trks) == 1

BaseIndex_last(trks) == Len(trks)

BaseIndex(trks) ==
    IF \E i \in DOMAIN trks : trks[i].key = StrDefault
    THEN CHOOSE i \in DOMAIN trks : trks[i].key = StrDefault
    ELSE 1

(* ------------------------------- state --------------------------------- *)
VARIABLES
    \* the caller's world: caption files by path, and the summary handed in
    track_files, transcript_summary,
    \* the arguments of the call in progress
    overwrite, min_duration, min_chars, workers,
    \* where the call is: idle, collect, load, check, plan, materialize,
    \* returned, raised
    pc,
    \* locals of create_transcript_aligned_segments
    tracks, entries_by_track, base_track,
    prepared_segments, skipped_count, kept_index, base_entry_index,
    \* per prepared segment, where its materialize_segment call is:
    \* pending, cutting, bundling, done, failed
    unit,
    \* what the call gave back: a summary (return) or an exception (raise)
    result,
    \* the output root on disk
    root_exists, segment_dirs, audio_files, bundle_files, index_file,
    \* observation of the call in progress: file-system calls made, the
    \* segments the cut tool was run for; and the number of calls so far
    io, cut_calls, runs,
    \* how the call before this one ended and the thresholds it was given
    prev_run,
    \* the process_url call around the segmentation: where it is, its
    \* generate_segments flag, its locals transcript_error and segment_error,
    \* whether it called the segmentation, and the status of its record
    url_call,
    \* the process_urls_batch call: its arguments, where each run_single call
    \* is, what it gave back, the records list and the returned list
    batch_call,
    \* the resolve_runtime call: its arguments, os.cpu_count() and its result
    runtime,
    \* the download_audio call: its arguments, the position of its loops, the
    \* attempts made with their outcomes, and how it ended
    download

inputVars == <<track_files, transcript_summary>>
argVars == <<overwrite, min_duration, min_chars, workers>>
trackVars == <<tracks, entries_by_track, base_track>>
planVars == <<prepared_segments, skipped_count, kept_index, base_entry_index>>
diskVars == <<root_exists, segment_dirs, audio_files, bundle_files, index_file>>
vars == <<inputVars, argVars, pc, trackVars, planVars, unit, result,
          diskVars, io, cut_calls, runs, prev_run, url_call,
          batch_call, runtime, download>>
outerVars == <<batch_call, runtime, download>>

(* ------------------------------ universes ------------------------------- *)
SeqsUpTo(S, n) == UNION {[1..k -> S] : k \in 0..n}

RawItem(t, s, d) == [isdict |-> TRUE, text |-> t, start |-> s, duration |-> d]
NotADict == [isdict |-> FALSE, text |-> << >>, start |-> 0, duration |-> 0]

MissingFile == [kind |-> "missing", items |-> << >>]
NotAList == [kind |-> "other", items |-> << >>]
ListFile(items) == [kind |-> "list", items |-> items]

NoResult ==
    [kind |-> "none", segment_count |-> 0, skipped_count |-> 0,
     base_track |-> NoneStr, has_index_path |-> FALSE, error |-> "none"]

NoIO == [stat |-> FALSE, read |-> FALSE, mkdir |-> FALSE, write |-> FALSE]

NoIndex == [exists |-> FALSE, rows |-> << >>]

EmptyMap == << >>

\* A map (function) with key k set to v.
Put(map, k, v) == [x \in DOMAIN map \cup {k} |-> IF x = k THEN v ELSE map[x]]

(* ------------------------------- actions -------------------------------- *)
Finished == pc \in {"returned", "raised"}

\* The planner loop is over: the call is materializing, or ended after it.
PlanComplete ==
    \/ pc = "materialize"
    \/ Finished /\ Len(tracks) > 0
                /\ result.error \in {"none", "CalledProcessError"}

\* Line 189: the plan is a local, empty at the start of every call.
InitialPlan_kept(previous) == previous

InitialPlan(previous) == << >>

\* A call of create_transcript_aligned_segments with the given arguments.
Call(ow, md, mc, w) ==
    /\ pc = "idle" \/ Finished
    /\ runs < MaxRuns
    /\ runs' = runs + 1
    /\ overwrite' = ow /\ min_duration' = md /\ min_chars' = mc /\ workers' = w
    /\ pc' = "collect"
    /\ tracks' = << >> /\ entries_by_track' = << >> /\ base_track' = 0
    /\ prepared_segments' = InitialPlan(prepared_segments)
    /\ skipped_count' = 0 /\ kept_index' = 0
    /\ base_entry_index' = 0
    /\ unit' = << >>
    /\ result' = NoResult
    /\ io' = NoIO /\ cut_calls' = {}
    /\ prev_run' = [returned |-> pc = "returned" /\ result.error = "none",
                    min_duration |-> min_duration, min_chars |-> min_chars,
                    planned |-> PlanComplete,
                    sequential |-> PlanComplete /\ workers = 1,
                    plan |-> IF PlanComplete THEN prepared_segments ELSE << >>]
    /\ UNCHANGED <<inputVars, diskVars>>

\* Whether add_track reaches track_path.exists() for some reference.
StatsAPath(s) ==
    \/ s.default_path # NoPath
    \/ s.auto_language_path # NoPath
    \/ \E i \in DOMAIN s.available :
          s.available[i].isdict /\ s.available[i].path # NoPath

\* Lines 169-178.
CollectTracks ==
    /\ pc = "collect"
    /\ tracks' = _collect_transcript_tracks(track_files, transcript_summary)
    /\ io' = [io EXCEPT !.stat = StatsAPath(transcript_summary)]
    /\ IF Len(tracks') = 0
       THEN /\ pc' = "returned"
            /\ result' = [kind |-> "return", segment_count |-> 0,
                          skipped_count |-> 0, base_track |-> NoneStr,
                          has_index_path |-> FALSE,
                          error |-> "No transcript files available for segmentation."]
       ELSE /\ pc' = "load"
            /\ result' = result
    /\ UNCHANGED <<url_call, outerVars>>
    /\ UNCHANGED <<inputVars, argVars, entries_by_track, base_track, planVars,
                   unit, diskVars, cut_calls, runs, prev_run>>

\* Lines 180-184.
LoadTracks ==
    /\ pc = "load"
    /\ root_exists' = TRUE
    /\ entries_by_track' =
          [i \in DOMAIN tracks |-> _load_entries(track_files[tracks[i].path])]
    /\ io' = [io EXCEPT !.mkdir = TRUE, !.read = TRUE]
    /\ base_track' = BaseIndex(tracks)
    /\ pc' = "check"
    /\ UNCHANGED <<url_call, outerVars>>
    /\ UNCHANGED <<inputVars, argVars, tracks, planVars, unit, result,
                   segment_dirs, audio_files, bundle_files, index_file,
                   cut_calls, runs, prev_run>>

\* Lines 186-187.
CheckWorkers ==
    /\ pc = "check"
    /\ IF workers < 1
       THEN /\ pc' = "raised"
            /\ result' = [NoResult EXCEPT !.kind = "raise",
                                          !.error = "workers must be >= 1"]
       ELSE /\ pc' = "plan"
            /\ result' = result
    /\ UNCHANGED <<url_call, outerVars>>
    /\ UNCHANGED <<inputVars, argVars, trackVars, planVars, unit, diskVars,
                   io, cut_calls, runs, prev_run>>

base_entries == entries_by_track[base_track]

\* One iteration of the loop of lines 192-247.
PlanStep ==
    /\ pc = "plan"
    /\ base_entry_index < Len(base_entries)
    /\ LET entry == base_entries[base_entry_index + 1]
       IN  IF Dropped(entry, min_duration, min_chars)
           THEN /\ skipped_count' = CountSkipped(skipped_count)
                /\ UNCHANGED <<prepared_segments, kept_index>>
           ELSE /\ prepared_segments' =
                      Append(prepared_segments,
                             PreparedSegment(tracks, entries_by_track,
                                             tracks[base_track].key, entry,
                                             base_entry_index, kept_index))
                /\ kept_index' = kept_index + 1
                /\ UNCHANGED skipped_count
    /\ base_entry_index' = base_entry_index + 1
    /\ UNCHANGED <<url_call, outerVars>>
    /\ UNCHANGED <<inputVars, argVars, pc, trackVars, unit, result, diskVars,
                   io, cut_calls, runs, prev_run>>

\* Lines 265-270: the loop is over; every segment's unit of work is pending
\* (in the for loop of the sequential path, or submitted to the pool).
PlanDone_early == TRUE

PlanDone == base_entry_index = Len(base_entries)

BeginMaterialize ==
    /\ pc = "plan"
    /\ PlanDone
    /\ pc' = "materialize"
    /\ unit' = [i \in DOMAIN prepared_segments |-> "pending"]
    /\ UNCHANGED <<url_call, outerVars>>
    /\ UNCHANGED <<inputVars, argVars, trackVars, planVars, result, diskVars,
                   io, cut_calls, runs, prev_run>>

(* --------------------------- materialization --------------------------- *)
InProgress(i) == unit[i] \in {"cutting", "bundling"}

Settled(i) == unit[i] \in {"done", "failed"}

\* The run order of the units.  workers == 1 (line 266): the for loop calls
\* materialize_segment for item i once the calls before it have returned.
\* Otherwise (lines 269-270): the pool's queue hands the submitted items out
\* in order, to at most max_workers threads at a time.
MayStart_anytime(i) == TRUE

MayStart_unbounded(i) == \A j \in 1..(i - 1) : unit[j] # "pending"

MayStart(i) ==
    IF workers = 1
    THEN \A j \in 1..(i - 1) : unit[j] = "done"
    ELSE /\ \A j \in 1..(i - 1) : unit[j] # "pending"
         /\ Cardinality({j \in DOMAIN unit : InProgress(j)}) < workers

\* Line 252.
NeedsCut_always(ow, audio_exists) == TRUE

NeedsCut(ow, audio_exists) == ow \/ ~audio_exists

\* Line 263: the bundle is written whatever is on disk.
NeedsBundle_skip(ow, bundle_exists) == ow \/ ~bundle_exists

NeedsBundle(ow, bundle_exists) == TRUE

\* materialize_segment is entered for item i: line 252, and when the cut is
\* due, line 76 and the start of the tool (line 95).
StartUnit(i) ==
    /\ pc = "materialize"
    /\ i \in DOMAIN unit
    /\ unit[i] = "pending"
    /\ MayStart(i)
    /\ LET id == prepared_segments[i].segment_id
       IN  IF NeedsCut(overwrite, id \in DOMAIN audio_files)
           THEN /\ unit' = [unit EXCEPT ![i] = "cutting"]
                /\ segment_dirs' = segment_dirs \cup {id}
                /\ cut_calls' = cut_calls \cup {id}
                /\ io' = [io EXCEPT !.stat = @ \/ ~overwrite, !.mkdir = TRUE]
           ELSE /\ unit' = [unit EXCEPT ![i] = "bundling"]
                /\ io' = [io EXCEPT !.stat = TRUE]
                /\ UNCHANGED <<segment_dirs, cut_calls>>
    /\ UNCHANGED <<url_call, outerVars>>
    /\ UNCHANGED <<inputVars, argVars, pc, trackVars, planVars, result,
                   root_exists, audio_files, bundle_files, index_file, runs, prev_run>>

\* What a successful cut leaves at audio_path: the window it was cut with.
AudioOf(item) ==
    [complete |-> TRUE, start |-> item.start, duration |-> item.duration]

\* The tool exits 0 (line 95 returns).
CutOk(i) ==
    /\ pc = "materialize"
    /\ i \in DOMAIN unit
    /\ unit[i] = "cutting"
    /\ audio_files' = Put(audio_files, prepared_segments[i].segment_id,
                          AudioOf(prepared_segments[i]))
    /\ unit' = [unit EXCEPT ![i] = "bundling"]
    /\ io' = [io EXCEPT !.write = TRUE]
    /\ UNCHANGED <<url_call, outerVars>>
    /\ UNCHANGED <<inputVars, argVars, pc, trackVars, planVars, result,
                   root_exists, segment_dirs, bundle_files, index_file,
                   cut_calls, runs, prev_run>>

\* How the call ends when a cut failed: subprocess.run(check=True) raised
\* CalledProcessError and nothing in segment.py catches it.
CutFailure_summary ==
    [NoResult EXCEPT !.kind = "return", !.error = "CalledProcessError"]

CutFailure ==
    [NoResult EXCEPT !.kind = "raise", !.error = "CalledProcessError"]

\* The tool exits nonzero: check=True raises CalledProcessError out of
\* materialize_segment.  The tool may have failed before opening its output
\* (the path is as it was) or after (-y: an incomplete file is there).  In the
\* for loop the exception leaves the call at once; in the pool it is held by
\* the future.
FailedCut_cleanup(files, item, opened) ==
    [id \in {x \in DOMAIN files : FALSE} |-> files[id]]

FailedCut(files, item, opened) ==
    IF opened
    THEN Put(files, item.segment_id, [AudioOf(item) EXCEPT !.complete = FALSE])
    ELSE files

CutFail(i) ==
    /\ pc = "materialize"
    /\ i \in DOMAIN unit
    /\ unit[i] = "cutting"
    /\ \E opened \in BOOLEAN :
          audio_files' = FailedCut(audio_files, prepared_segments[i], opened)
    /\ unit' = [unit EXCEPT ![i] = "failed"]
    /\ IF workers = 1
       THEN /\ pc' = "raised"
            /\ result' = CutFailure
       ELSE UNCHANGED <<pc, result>>
    /\ UNCHANGED <<url_call, outerVars>>
    /\ UNCHANGED <<inputVars, argVars, trackVars, planVars, root_exists,
                   segment_dirs, bundle_files, index_file, io, cut_calls, runs, prev_run>>

\* Lines 262-263.
WriteBundle(i) ==
    /\ pc = "materialize"
    /\ i \in DOMAIN unit
    /\ unit[i] = "bundling"
    /\ LET id == prepared_segments[i].segment_id
       IN  /\ segment_dirs' = segment_dirs \cup {id}
           /\ bundle_files' =
                 IF NeedsBundle(overwrite, id \in DOMAIN bundle_files)
                 THEN Put(bundle_files, id, Bundle(prepared_segments[i]))
                 ELSE bundle_files
    /\ unit' = [unit EXCEPT ![i] = "done"]
    /\ io' = [io EXCEPT !.mkdir = TRUE, !.write = TRUE]
    /\ UNCHANGED <<url_call, outerVars>>
    /\ UNCHANGED <<inputVars, argVars, pc, trackVars, planVars, result,
                   root_exists, audio_files, index_file, cut_calls, runs, prev_run>>

\* Lines 269-272 with a failed future: future.result() re-raises, and the
\* with block's exit (shutdown(wait=True)) lets every submitted item run to
\* its end before the exception leaves the call.
PoolExits_eager == TRUE

PoolExits == \A i \in DOMAIN unit : Settled(i)

PoolRaise ==
    /\ pc = "materialize"
    /\ workers > 1
    /\ PoolExits
    /\ \E i \in DOMAIN unit : unit[i] = "failed"
    /\ pc' = "raised"
    /\ result' = CutFailure
    /\ UNCHANGED <<url_call, outerVars>>
    /\ UNCHANGED <<inputVars, argVars, trackVars, planVars, unit, diskVars,
                   io, cut_calls, runs, prev_run>>

\* _write_jsonl opens the index with mode "w": the rows replace the file.
IndexRows_append(old, rows) == old \o rows

IndexRows(old, rows) == rows

\* Line 275.
PlanRows_reversed(segments) ==
    [i \in DOMAIN segments |-> Row(segments[Len(segments) + 1 - i])]

PlanRows(segments) == [i \in DOMAIN segments |-> Row(segments[i])]

\* Lines 265-272 end without an exception: every materialize_segment call
\* returned.
MayWriteIndex_attempted == \A i \in DOMAIN unit : Settled(i)

MayWriteIndex == \A i \in DOMAIN unit : unit[i] = "done"

\* Lines 274-284.
WriteIndex ==
    /\ pc = "materialize"
    /\ MayWriteIndex
    /\ index_file' = [exists |-> TRUE,
                      rows |-> IndexRows(index_file.rows,
                                         PlanRows(prepared_segments))]
    /\ io' = [io EXCEPT !.mkdir = TRUE, !.write = TRUE]
    /\ result' = [kind |-> "return",
                  segment_count |-> Len(PlanRows(prepared_segments)),
                  skipped_count |-> skipped_count,
                  base_track |-> tracks[base_track].key,
                  has_index_path |-> TRUE,
                  error |-> "none"]
    /\ pc' = "returned"
    /\ UNCHANGED <<url_call, outerVars>>
    /\ UNCHANGED <<inputVars, argVars, trackVars, planVars, unit, root_exists,
                   segment_dirs, audio_files, bundle_files, cut_calls, runs, prev_run>>

(* ----------------------------- process_url ----------------------------- *)
\* process.py, process_url: the caller of the segmentation.  An error local
\* is None ("none" here) or the message of an exception, which may be empty.
NoError == "none"
SkippedNote == "Skipped because transcript fetch failed."
ErrorMessages == {"", "HTTP Error 429"}

\* Lines 343-348 and the locals of lines 371 and 390.
NoUrlCall ==
    [pc |-> "idle", generate_segments |-> FALSE, transcript_error |-> NoError,
     segment_error |-> NoError, invoked |-> FALSE, status |-> "failed"]

\* Everything the segmentation call owns.
segVars == <<inputVars, argVars, pc, trackVars, planVars, unit, result,
             diskVars, io, cut_calls, runs, prev_run>>

\* process_url is entered with its arguments for the segmentation stage.
process_url(generate_segments, ow, md, mc, w) ==
    /\ url_call.pc = "idle"
    /\ url_call' = [NoUrlCall EXCEPT !.pc = "fetch",
                                     !.generate_segments = generate_segments]
    /\ overwrite' = ow /\ min_duration' = md /\ min_chars' = mc /\ workers' = w
    /\ UNCHANGED <<inputVars, pc, trackVars, planVars, unit, result, diskVars,
                   io, cut_calls, runs, prev_run, outerVars>>

\* Lines 350-369: fetch_video_info and download_audio are not in a try
\* block; an exception of either leaves process_url.
FetchInfoAndAudio ==
    /\ url_call.pc = "fetch"
    /\ \E ok \in BOOLEAN :
          url_call' = [url_call EXCEPT !.pc = IF ok THEN "transcripts"
                                             ELSE "raised"]
    /\ UNCHANGED <<segVars, outerVars>>

\* Lines 371-388: the summary is the fetched one, or on an exception the
\* empty default with transcript_error = str(exc).
FetchTranscripts ==
    /\ url_call.pc = "transcripts"
    /\ \E err \in {NoError} \cup ErrorMessages :
          /\ url_call' = [url_call EXCEPT !.pc = "segments",
                                          !.transcript_error = err]
          /\ transcript_summary' =
                IF err = NoError THEN transcript_summary
                ELSE [default_path |-> NoPath, auto_language_path |-> NoPath,
                      auto_language_code |-> NoneStr, available |-> << >>]
    /\ UNCHANGED <<track_files, argVars, pc, trackVars, planVars, unit, result,
                   diskVars, io, cut_calls, runs, prev_run, outerVars>>

\* Line 399.
InvokesSegmentation(generate_segments, transcript_error) ==
    generate_segments /\ transcript_error = NoError

\* Lines 399-417, up to the call of create_transcript_aligned_segments.
SegmentStage ==
    /\ url_call.pc = "segments"
    /\ IF InvokesSegmentation(url_call.generate_segments,
                              url_call.transcript_error)
       THEN /\ Call(overwrite, min_duration, min_chars, workers)
            /\ url_call' = [url_call EXCEPT !.pc = "segmenting",
                                            !.invoked = TRUE]
       ELSE /\ url_call' =
                  [url_call EXCEPT
                      !.pc = "metadata",
                      !.segment_error =
                          IF url_call.generate_segments
                             /\ url_call.transcript_error # NoError
                          THEN SkippedNote ELSE @]
            /\ UNCHANGED segVars
    /\ UNCHANGED outerVars

\* Lines 413 and 414-415: the summary's error field, or str(exc).
SegmentError(r) == r.error

\* The segmentation call has returned or raised (lines 400-415).
SegmentReturns ==
    /\ url_call.pc = "segmenting"
    /\ Finished
    /\ url_call' = [url_call EXCEPT !.pc = "metadata",
                                    !.segment_error = SegmentError(result)]
    /\ UNCHANGED <<segVars, outerVars>>

\* Line 466.
StatusOf_truthy(transcript_error, segment_error) ==
    IF transcript_error \in {NoError, ""} /\ segment_error \in {NoError, ""}
    THEN "success" ELSE "partial"

StatusOf(transcript_error, segment_error) ==
    IF transcript_error = NoError /\ segment_error = NoError
    THEN "success" ELSE "partial"

\* Lines 419-482: metadata.json and the record.
WriteRecord ==
    /\ url_call.pc = "metadata"
    /\ url_call' = [url_call EXCEPT
                       !.pc = "done",
                       !.status = StatusOf(url_call.transcript_error,
                                           url_call.segment_error)]
    /\ UNCHANGED <<segVars, outerVars>>

(* -------------------------- process_urls_batch -------------------------- *)
\* process.py, process_urls_batch.  process_url is seen from outside here: a
\* call of it returns a record, with status success or partial (line 466), or
\* raises an Exception.
MaxUrls == 3

Urls == {"u", "v"}

\* None in the records list (line 263).
NoRecord == [url |-> "", status |-> "none"]

NoBatch ==
    [pc |-> "idle", urls |-> << >>, video_workers |-> 0, task |-> << >>,
     raised |-> << >>, future |-> << >>, records |-> << >>, order |-> << >>,
     returned |-> << >>]

\* Line 321.
NotNone(record) == record # NoRecord

\* Lines 260-263: no URL, the empty list at once; else one None per URL.
process_urls_batch(urls, video_workers) ==
    /\ batch_call.pc = "idle"
    /\ batch_call' =
          IF urls = << >>
          THEN [NoBatch EXCEPT !.pc = "returned",
                               !.video_workers = video_workers]
          ELSE [pc |-> "running", urls |-> urls,
                video_workers |-> video_workers,
                task |-> [i \in DOMAIN urls |-> "pending"],
                raised |-> [i \in DOMAIN urls |-> FALSE],
                future |-> [i \in DOMAIN urls |-> NoRecord],
                records |-> [i \in DOMAIN urls |-> NoRecord],
                order |-> << >>, returned |-> << >>]
    /\ UNCHANGED <<segVars, url_call, runtime, download>>

\* Lines 305-312: the for loop calls run_single for a URL once the record of
\* the URL before is stored; the pool hands the submitted calls out in
\* order, to at most max_workers threads at a time.
SingleMayStart(i) ==
    IF batch_call.video_workers <= 1
    THEN \A j \in 1..(i - 1) : batch_call.task[j] = "stored"
    ELSE /\ \A j \in 1..(i - 1) : batch_call.task[j] # "pending"
         /\ Cardinality({j \in DOMAIN batch_call.task :
                            batch_call.task[j] = "running"})
               < batch_call.video_workers

\* run_single is entered for URL i (line 275).
StartSingle(i) ==
    /\ batch_call.pc = "running"
    /\ i \in DOMAIN batch_call.task
    /\ batch_call.task[i] = "pending"
    /\ SingleMayStart(i)
    /\ batch_call' = [batch_call EXCEPT !.task[i] = "running"]
    /\ UNCHANGED <<segVars, url_call, runtime, download>>

Outcomes == {"success", "partial", "raise"}

\* Lines 276-303: the record of process_url, or on an exception a record
\* with status "failed".
SingleRecord(url, outcome) ==
    [url |-> url,
     status |-> IF outcome = "raise" THEN "failed" ELSE outcome]

\* run_single returns for URL i.
EndSingle(i) ==
    /\ batch_call.pc = "running"
    /\ i \in DOMAIN batch_call.task
    /\ batch_call.task[i] = "running"
    /\ \E outcome \in Outcomes :
          batch_call' =
             [batch_call EXCEPT
                 !.task[i] = "finished",
                 !.raised[i] = (outcome = "raise"),
                 !.future[i] = SingleRecord(batch_call.urls[i], outcome)]
    /\ UNCHANGED <<segVars, url_call, runtime, download>>

\* Lines 308 and 318: the slot of the records list a result is stored in.
StoreAt_completion(idx, completed) == completed

StoreAt(idx, completed) == idx

\* Lines 307-308, and 314-318 for a future as_completed yields: any one that
\* has finished.
StoreRecord(i) ==
    /\ batch_call.pc = "running"
    /\ i \in DOMAIN batch_call.task
    /\ batch_call.task[i] = "finished"
    /\ LET completed == Len(batch_call.order) + 1
       IN  batch_call' =
              [batch_call EXCEPT
                  !.task[i] = "stored",
                  !.order = Append(@, i),
                  !.records[StoreAt(i, completed)] = batch_call.future[i]]
    /\ UNCHANGED <<segVars, url_call, runtime, download>>

\* Line 321, after the loop of line 306 or the with block of line 311.
BatchReturn ==
    /\ batch_call.pc = "running"
    /\ \A i \in DOMAIN batch_call.task : batch_call.task[i] = "stored"
    /\ batch_call' =
          [batch_call EXCEPT !.pc = "returned",
                             !.returned = SelectSeq(batch_call.records, NotNone)]
    /\ UNCHANGED <<segVars, url_call, runtime, download>>

(* ---------------------------- resolve_runtime --------------------------- *)
\* process.py, resolve_runtime.  os.cpu_count() gives a positive number or
\* None, which 0 stands for.
MaxCpu == 4

NoRuntime ==
    [kind |-> "none", video_workers_arg |-> 0, segment_workers_arg |-> 0,
     os_cpu_count |-> 0, cpu_count |-> 0, video_workers |-> 0,
     segment_workers |-> 0]

\* Line 165: os.cpu_count() or 1.
CpuCount(os_cpu_count) == IF os_cpu_count = 0 THEN 1 ELSE os_cpu_count

\* Line 172.
VideoWorkers(video_workers_arg, cpu_count) ==
    IF video_workers_arg > 0 THEN video_workers_arg ELSE Max(1, cpu_count)

\* Line 177.
AutoSegmentWorkers_unfloored(cpu_count, video_workers) ==
    cpu_count \div Max(1, video_workers)

AutoSegmentWorkers(cpu_count, video_workers) ==
    Max(1, cpu_count \div Max(1, video_workers))

\* Lines 173-177.
SegmentWorkers(segment_workers_arg, cpu_count, video_workers) ==
    IF segment_workers_arg > 0 THEN segment_workers_arg
    ELSE AutoSegmentWorkers(cpu_count, video_workers)

\* Lines 169-170.
RejectsWorkers(video_workers_arg, segment_workers_arg) ==
    video_workers_arg < 0 \/ segment_workers_arg < 0

resolve_runtime(video_workers_arg, segment_workers_arg, os_cpu_count) ==
    /\ runtime.kind = "none"
    /\ LET cpu_count == CpuCount(os_cpu_count)
           video_workers == VideoWorkers(video_workers_arg, cpu_count)
           called == [NoRuntime EXCEPT
                         !.video_workers_arg = video_workers_arg,
                         !.segment_workers_arg = segment_workers_arg,
                         !.os_cpu_count = os_cpu_count,
                         !.cpu_count = cpu_count]
       IN  runtime' =
              IF RejectsWorkers(video_workers_arg, segment_workers_arg)
              THEN [called EXCEPT !.kind = "ValueError"]
              ELSE [called EXCEPT
                       !.kind = "return",
                       !.video_workers = video_workers,
                       !.segment_workers =
                           SegmentWorkers(segment_workers_arg, cpu_count,
                                          video_workers)]
    /\ UNCHANGED <<segVars, url_call, batch_call, download>>

(* ---------------------------- download_audio ---------------------------- *)
\* audio.py, download_audio.  Lines 224-233: the formats and the strategies
\* the loops go through; the last format is None (yt-dlp's default).
format_attempts ==
    <<"bestaudio[acodec!=none]/bestaudio*/bestaudio/best*[acodec!=none]/best",
      "bestaudio*/bestaudio/best", "best", "None">>

strategy_opts == <<"extractor_args", "base_opts">>

NoDownload ==
    [pc |-> "idle", target_exists |-> FALSE, overwrite |-> FALSE,
     strategy |-> 1, fmt |-> 1, attempts |-> << >>, outcomes |-> << >>,
     last_error |-> "none", finished |-> FALSE, error |-> "none",
     path |-> "none"]

\* Lines 189-193.
download_audio(target_exists, ow) ==
    /\ download.pc = "idle"
    /\ download' =
          IF target_exists /\ ~ow
          THEN [NoDownload EXCEPT !.pc = "returned", !.target_exists = TRUE,
                                  !.path = "target"]
          ELSE [NoDownload EXCEPT !.pc = "attempt",
                                  !.target_exists = target_exists,
                                  !.overwrite = ow]
    /\ UNCHANGED <<segVars, url_call, batch_call, runtime>>

\* How ydl.download ends: it returns, or raises a DownloadError whose message
\* says the format is not available, or another DownloadError, or an exception
\* of another class.
AttemptOutcomes == {"ok", "format_unavailable", "download_error", "exception"}

\* Lines 247-250: the failures after which the loops go on.
Retries_any(outcome) == outcome # "ok"

Retries(outcome) == outcome = "format_unavailable"

\* One pass of the body of the loops, lines 238-253, and when the loops end
\* without a success lines 255-260.
Attempt ==
    /\ download.pc = "attempt"
    /\ \E outcome \in AttemptOutcomes :
          LET tried == [download EXCEPT
                           !.attempts = Append(@, <<download.strategy,
                                                    download.fmt>>),
                           !.outcomes = Append(@, outcome)]
          IN  download' =
                 IF outcome = "ok"
                 THEN [tried EXCEPT !.last_error = "none", !.finished = TRUE,
                                    !.pc = "produced"]
                 ELSE IF ~Retries(outcome)
                 THEN [tried EXCEPT !.last_error = outcome, !.pc = "raised",
                                    !.error = outcome]
                 ELSE IF download.fmt < Len(format_attempts)
                 THEN [tried EXCEPT !.last_error = outcome, !.fmt = @ + 1]
                 ELSE IF download.strategy < Len(strategy_opts)
                 THEN [tried EXCEPT !.last_error = outcome, !.fmt = 1,
                                    !.strategy = @ + 1]
                 ELSE [tried EXCEPT !.last_error = outcome, !.pc = "raised",
                                    !.error = outcome]
    /\ UNCHANGED <<segVars, url_call, batch_call, runtime>>

\* Lines 262-269: the target file, else the first source.* file, else
\* RuntimeError.
Produce ==
    /\ download.pc = "produced"
    /\ \E found \in {"target", "candidate", "none"} :
          download' =
             IF found = "none"
             THEN [download EXCEPT !.pc = "raised", !.error = "RuntimeError"]
             ELSE [download EXCEPT !.pc = "returned", !.path = found]
    /\ UNCHANGED <<segVars, url_call, batch_call, runtime>>

(* --------------------------- specifications ---------------------------- *)
InitCall ==
    /\ pc = "idle" /\ runs = 0
    /\ url_call = NoUrlCall
    /\ batch_call = NoBatch /\ runtime = NoRuntime /\ download = NoDownload
    /\ overwrite = FALSE /\ min_duration = 0 /\ min_chars = 0 /\ workers = 1
    /\ tracks = << >> /\ entries_by_track = << >> /\ base_track = 0
    /\ prepared_segments = << >> /\ skipped_count = 0 /\ kept_index = 0
    /\ base_entry_index = 0
    /\ unit = << >>
    /\ result = NoResult
    /\ root_exists = FALSE /\ segment_dirs = {}
    /\ audio_files = EmptyMap /\ bundle_files = EmptyMap
    /\ index_file = NoIndex
    /\ io = NoIO /\ cut_calls = {}
    /\ prev_run = [returned |-> FALSE, min_duration |-> 0, min_chars |-> 0,
                   planned |-> FALSE, sequential |-> FALSE, plan |-> << >>]

\* Inputs of the run machine: a default caption file of entries that differ
\* in duration, so that min_duration decides how many segments a call plans.
RunItems == {RawItem(<<"a">>, 0, 1), RawItem(<<"b">>, 1, 2)}
RunFiles == {MissingFile} \cup {ListFile(s) : s \in SeqsUpTo(RunItems, MaxEntries)}
RunMinDurations == {1, 2}
RunMinChars == {1}

Summary(dpath, apath, acode, avail) ==
    [default_path |-> dpath, auto_language_path |-> apath,
     auto_language_code |-> acode, available |-> avail]

Init ==
    /\ InitCall
    /\ \E f \in RunFiles : track_files = [p \in {"d"} |-> f]
    /\ \E dp \in {NoPath, "d"} :
          transcript_summary = Summary(dp, NoPath, NoneStr, << >>)

Next ==
    \/ \E ow \in BOOLEAN, md \in RunMinDurations, mc \in RunMinChars,
          w \in 0..MaxWorkers : Call(ow, md, mc, w) /\ UNCHANGED <<url_call, outerVars>>
    \/ CollectTracks
    \/ LoadTracks
    \/ CheckWorkers
    \/ PlanStep
    \/ BeginMaterialize
    \/ \E i \in 1..Len(unit) : StartUnit(i)
    \/ \E i \in 1..Len(unit) : CutOk(i)
    \/ \E i \in 1..Len(unit) : CutFail(i)
    \/ \E i \in 1..Len(unit) : WriteBundle(i)
    \/ PoolRaise
    \/ WriteIndex

Spec == Init /\ [][Next]_vars

\* Inputs of the planner: a default caption file over items that clamp
\* (negative start, negative duration), trim, touch and overlap one another,
\* and a second track; one sequential call on an empty output root, in which
\* no cut fails.
PlanItems ==
    {RawItem(<<" ", "a">>, -1, 2), RawItem(<<"b">>, 1, 1),
     RawItem(<<"c", " ">>, 0, 1), RawItem(<< >>, 0, 2),
     RawItem(<<"d">>, 1, -1), RawItem(<<"e">>, 2, 1), NotADict}
PlanFiles ==
    {MissingFile, NotAList}
        \cup {ListFile(s) : s \in SeqsUpTo(PlanItems, MaxEntries)}
OtherItems == {RawItem(<<"x">>, 0, 1), RawItem(<<"y">>, 1, 2)}
OtherFiles ==
    {MissingFile} \cup {ListFile(s) : s \in SeqsUpTo(OtherItems, MaxEntries)}
PlanMinDurations == {0, 1, 2}
PlanMinChars == {0, 1}

InitPlan ==
    /\ InitCall
    /\ \E f \in PlanFiles, g \in OtherFiles :
          track_files = [p \in {"d", "a"} |-> IF p = "d" THEN f ELSE g]
    /\ transcript_summary = Summary("d", "a", <<"e", "n">>, << >>)

NextPlan ==
    \/ \E md \in PlanMinDurations, mc \in PlanMinChars :
          runs = 0 /\ Call(FALSE, md, mc, 1) /\ UNCHANGED <<url_call, outerVars>>
    \/ CollectTracks
    \/ LoadTracks
    \/ CheckWorkers
    \/ PlanStep
    \/ BeginMaterialize
    \/ \E i \in 1..Len(unit) : StartUnit(i)
    \/ \E i \in 1..Len(unit) : CutOk(i)
    \/ \E i \in 1..Len(unit) : WriteBundle(i)
    \/ WriteIndex

SpecPlan == InitPlan /\ [][NextPlan]_vars

\* Inputs of track collection: a summary whose references may be null, name
\* a missing file, or give keys that collide (with one another, with the
\* auto-language key, with a suffixed key, or after sanitising); one
\* sequential call.
AvailableItem(code, generated, path) ==
    [isdict |-> TRUE, language_code |-> code, is_generated |-> generated,
     path |-> path]
NotADictItem ==
    [isdict |-> FALSE, language_code |-> << >>, is_generated |-> FALSE,
     path |-> NoPath]
StrEn == <<"e", "n">>
AvailableItems ==
    {AvailableItem(StrEn, TRUE, "m"),
     AvailableItem(StrEn, FALSE, "m"),
     AvailableItem(<<"t", "a", "r", "g", "e", "t", "_", "e", "n">>, TRUE, "a"),
     AvailableItem(<<"e", "n", "_", "2">>, TRUE, "m"),
     AvailableItem(<<"e", "n", "!">>, TRUE, "d"),
     AvailableItem(StrEn, TRUE, NoPath),
     NotADictItem}
TrackFiles == {MissingFile, ListFile(<<RawItem(<<"a">>, 0, 1)>>)}

InitTracks ==
    /\ InitCall
    /\ track_files \in [{"d", "a", "m"} -> TrackFiles]
    /\ \E dp \in {NoPath, "d"}, ap \in {NoPath, "a"}, code \in {NoneStr, StrEn},
          avail \in SeqsUpTo(AvailableItems, MaxAvailable) :
          transcript_summary = Summary(dp, ap, code, avail)

NextTracks ==
    \/ runs = 0 /\ Call(FALSE, 1, 1, 1) /\ UNCHANGED <<url_call, outerVars>>
    \/ CollectTracks
    \/ LoadTracks
    \/ CheckWorkers
    \/ PlanStep
    \/ BeginMaterialize
    \/ \E i \in 1..Len(unit) : StartUnit(i)
    \/ \E i \in 1..Len(unit) : CutOk(i)
    \/ \E i \in 1..Len(unit) : WriteBundle(i)
    \/ WriteIndex

SpecTracks == InitTracks /\ [][NextTracks]_vars

\* One process_url call over the inputs of the run machine, with and without
\* segment generation, for every outcome of the transcript fetch.
NextUrl ==
    \/ \E gs \in BOOLEAN, ow \in BOOLEAN, md \in RunMinDurations,
          mc \in RunMinChars, w \in 0..MaxWorkers : process_url(gs, ow, md, mc, w)
    \/ FetchInfoAndAudio
    \/ FetchTranscripts
    \/ SegmentStage
    \/ SegmentReturns
    \/ WriteRecord
    \/ CollectTracks
    \/ LoadTracks
    \/ CheckWorkers
    \/ PlanStep
    \/ BeginMaterialize
    \/ \E i \in 1..Len(unit) : StartUnit(i)
    \/ \E i \in 1..Len(unit) : CutOk(i)
    \/ \E i \in 1..Len(unit) : CutFail(i)
    \/ \E i \in 1..Len(unit) : WriteBundle(i)
    \/ PoolRaise
    \/ WriteIndex

SpecUrl == Init /\ [][NextUrl]_vars

\* Inputs of the materializer: a default caption file with one entry more
\* than the largest pool has workers, all kept, so that the pool is full
\* while a unit waits; one call on an empty output root, in the for loop and
\* in the pool, in which any cut may fail.
PoolFiles ==
    {ListFile(s) : s \in [1..(MaxWorkers + 1) -> RunItems]}

InitPool ==
    /\ InitCall
    /\ \E f \in PoolFiles : track_files = [p \in {"d"} |-> f]
    /\ transcript_summary = Summary("d", NoPath, NoneStr, << >>)

NextPool ==
    \/ \E w \in 1..MaxWorkers :
          runs = 0 /\ Call(FALSE, 1, 1, w) /\ UNCHANGED <<url_call, outerVars>>
    \/ CollectTracks
    \/ LoadTracks
    \/ CheckWorkers
    \/ PlanStep
    \/ BeginMaterialize
    \/ \E i \in 1..Len(unit) : StartUnit(i)
    \/ \E i \in 1..Len(unit) : CutOk(i)
    \/ \E i \in 1..Len(unit) : CutFail(i)
    \/ \E i \in 1..Len(unit) : WriteBundle(i)
    \/ PoolRaise
    \/ WriteIndex

SpecPool == InitPool /\ [][NextPool]_vars

\* Repeated calls with overwrite=False over one output root, none of which
\* fails: the inputs of the run machine, thresholds free in every call.
NextRerun ==
    \/ \E md \in RunMinDurations, mc \in RunMinChars, w \in 1..MaxWorkers :
          Call(FALSE, md, mc, w) /\ UNCHANGED <<url_call, outerVars>>
    \/ CollectTracks
    \/ LoadTracks
    \/ CheckWorkers
    \/ PlanStep
    \/ BeginMaterialize
    \/ \E i \in 1..Len(unit) : StartUnit(i)
    \/ \E i \in 1..Len(unit) : CutOk(i)
    \/ \E i \in 1..Len(unit) : WriteBundle(i)
    \/ WriteIndex

SpecRerun == Init /\ [][NextRerun]_vars

(* ------------------------------- claims -------------------------------- *)
\* The call returned a summary built from at least one loaded track.
ReturnedNormally == pc = "returned" /\ Len(tracks) > 0

\* The planner loop has run over the base entries before base_entry_index.
Planning == pc \in {"plan", "materialize", "returned", "raised"} /\ base_track > 0

\* The JSON objects of a caption file: what the loader makes entries of.
ObjectCount(file) ==
    IF file.kind = "list"
    THEN Cardinality({i \in DOMAIN file.items : file.items[i].isdict})
    ELSE 0

DigitValue(c) == CHOOSE d \in 0..9 : DigitChars[d + 1] = c

RECURSIVE ParseDecimal(_)
ParseDecimal(s) ==
    IF Len(s) = 0 THEN 0
    ELSE 10 * ParseDecimal(SubSeq(s, 1, Len(s) - 1)) + DigitValue(s[Len(s)])

\* id is the number n written in six digits.
IsSegmentId(id, n) ==
    /\ Len(id) = 6
    /\ \A i \in DOMAIN id : \E d \in 0..9 : DigitChars[d + 1] = id[i]
    /\ ParseDecimal(id) = n

\* The drop rule as the specification words it.
RuleDrops(entry) ==
    entry.duration < min_duration \/ Len(Strip(entry.text)) < min_chars

BaseIndexOf(k) == prepared_segments[k].base_entry_index

\* C1: when the call returns normally with at least one track loaded,
\* segment_count + skipped_count is the number of entries of the base track
\* (the JSON objects of the base track's file).
C1_CountsAddUp ==
    ReturnedNormally =>
        result.segment_count + result.skipped_count
            = ObjectCount(track_files[tracks[base_track].path])

C1_Witness ==
    /\ ReturnedNormally
    /\ result.segment_count >= 1
    /\ result.skipped_count >= 1

\* C2: segment IDs are 0..segment_count-1 written in six digits, in the order
\* of the kept base entries: the k-th plan entry comes from the k-th base
\* entry the drop rule keeps, base_entry_index grows with the ID, and the
\* summary's segment_count is the number of plan entries.
C2_DenseIds ==
    /\ \A k \in DOMAIN prepared_segments :
          IsSegmentId(prepared_segments[k].segment_id, k - 1)
    /\ \A k, l \in DOMAIN prepared_segments :
          k < l => BaseIndexOf(k) < BaseIndexOf(l)
    /\ Planning =>
          \A k \in DOMAIN prepared_segments :
             /\ ~RuleDrops(base_entries[BaseIndexOf(k) + 1])
             /\ Cardinality({idx \in 0..(BaseIndexOf(k) - 1) :
                                ~RuleDrops(base_entries[idx + 1])}) = k - 1
    /\ ReturnedNormally => result.segment_count = Len(prepared_segments)

\* A kept entry that follows a dropped one.
C2_Witness ==
    /\ ReturnedNormally
    /\ \E k \in DOMAIN prepared_segments : BaseIndexOf(k) > k - 1

\* C3: a base entry is dropped (no plan entry, counted in skipped_count) iff
\* duration < min_duration or len(trimmed text) < min_chars; every other base
\* entry has exactly one plan entry.
C3_DropRule ==
    Planning =>
        /\ \A idx \in 0..(base_entry_index - 1) :
              Cardinality({k \in DOMAIN prepared_segments : BaseIndexOf(k) = idx})
                 = IF RuleDrops(base_entries[idx + 1]) THEN 0 ELSE 1
        /\ skipped_count =
              Cardinality({idx \in 0..(base_entry_index - 1) :
                              RuleDrops(base_entries[idx + 1])})
        /\ ReturnedNormally => result.skipped_count = skipped_count
                               /\ base_entry_index = Len(base_entries)

\* An entry as long as min_duration is kept, next to a dropped one.
C3_Witness ==
    /\ ReturnedNormally
    /\ min_duration > 0
    /\ result.skipped_count >= 1
    /\ \E k \in DOMAIN prepared_segments :
          prepared_segments[k].duration = min_duration

\* The entries of a track the specification's open-interval test selects for
\* the window [start, end), by position.
InWindow(entry, start, end) ==
    /\ entry.start + entry.duration > start
    /\ entry.start < end

RECURSIVE WindowTexts(_, _, _)
WindowTexts(entries, start, end) ==
    IF Len(entries) = 0 THEN << >>
    ELSE LET e == entries[Len(entries)]
             before == WindowTexts(SubSeq(entries, 1, Len(entries) - 1),
                                   start, end)
         IN  IF InWindow(e, start, end) /\ Len(Strip(e.text)) > 0
             THEN Append(before, Strip(e.text))
             ELSE before

\* C4: for every kept segment and every loaded track, the bundle text is the
\* single-space join, in track order, of the trimmed non-empty texts of the
\* entries with entry_end > start and entry_start < end, whatever the order
\* of the track's entries.
C4_BundleText ==
    \A k \in DOMAIN prepared_segments :
       LET seg == prepared_segments[k]
       IN  /\ DOMAIN seg.tracks = DOMAIN tracks
           /\ \A t \in DOMAIN tracks :
                 /\ seg.tracks[t].key = tracks[t].key
                 /\ seg.tracks[t].text =
                       Join(WindowTexts(entries_by_track[t], seg.start, seg.end),
                            <<" ">>)

\* Some bundle joins two texts of a track that is not sorted by start, and
\* some entry with text only touches a window and is left out.
C4_Witness ==
    /\ ReturnedNormally
    /\ \E k \in DOMAIN prepared_segments, t \in DOMAIN tracks :
          /\ Len(prepared_segments[k].tracks[t].entry_indices) >= 2
          /\ \E i, j \in DOMAIN entries_by_track[t] :
                i < j /\ entries_by_track[t][i].start > entries_by_track[t][j].start
    /\ \E k \in DOMAIN prepared_segments, t \in DOMAIN tracks :
          \E i \in DOMAIN entries_by_track[t] :
             LET e == entries_by_track[t][i]
             IN  /\ Len(e.text) > 0
                 /\ e.duration > 0
                 /\ e.start = prepared_segments[k].end
                 /\ \A m \in DOMAIN prepared_segments[k].tracks[t].entry_indices :
                       prepared_segments[k].tracks[t].entry_indices[m] # i - 1

\* The call follows a call that returned a plan for the same inputs.
SameInputsAsReturnedRun ==
    /\ pc # "idle"
    /\ prev_run.returned
    /\ prev_run.min_duration = min_duration
    /\ prev_run.min_chars = min_chars

\* C5: with overwrite false the cut tool is run for a segment only when its
\* audio file is not on disk, and no audio file on disk is rewritten or
\* removed; so a call that follows a call that returned, with the same inputs,
\* runs the tool for no segment.
C5_CutOnlyWhenAbsent ==
    /\ [][~overwrite =>
            /\ \A id \in cut_calls' \ cut_calls : id \notin DOMAIN audio_files
            /\ \A id \in DOMAIN audio_files :
                  /\ id \in DOMAIN audio_files'
                  /\ audio_files'[id] = audio_files[id]]_vars
    /\ []((~overwrite /\ SameInputsAsReturnedRun) => cut_calls = {})

\* A second call with the same inputs has returned without a cut.
C5_Witness ==
    /\ pc = "returned"
    /\ ~overwrite
    /\ SameInputsAsReturnedRun
    /\ Len(prepared_segments) >= 1
    /\ cut_calls = {}
    /\ \A k \in DOMAIN prepared_segments :
          prepared_segments[k].segment_id \in DOMAIN audio_files

\* C6: with overwrite false, a transcripts.json that is on disk is not
\* rewritten by a call.
C6_BundleKept ==
    [][~overwrite =>
          \A id \in DOMAIN bundle_files :
             /\ id \in DOMAIN bundle_files'
             /\ bundle_files'[id] = bundle_files[id]]_vars

\* A path of the summary that names a file on disk.
Usable(path) == path # NoPath /\ track_files[path].kind # "missing"

NoUsableTrack ==
    /\ ~Usable(transcript_summary.default_path)
    /\ ~Usable(transcript_summary.auto_language_path)
    /\ \A i \in DOMAIN transcript_summary.available :
          ~Usable(transcript_summary.available[i].path)

\* C7: when no transcript track is usable the call raises nothing and writes
\* nothing: it returns segment_count 0, skipped_count 0 and an error; and a
\* call that returns with a track loaded returns no error.
C7_NoTracks ==
    /\ (NoUsableTrack /\ pc # "idle") =>
          /\ pc \in {"collect", "returned"}
          /\ ~io.read /\ ~io.mkdir /\ ~io.write
          /\ ~root_exists /\ ~index_file.exists
          /\ pc = "returned" =>
                /\ result.kind = "return"
                /\ result.segment_count = 0
                /\ result.skipped_count = 0
                /\ result.error # "none"
    /\ (pc = "returned" /\ ~NoUsableTrack) =>
          /\ result.kind = "return"
          /\ result.error = "none"

\* The default path names a file that is not on disk.
C7_Witness ==
    /\ pc = "returned"
    /\ NoUsableTrack
    /\ transcript_summary.default_path # NoPath
    /\ result.error # "none"

\* C8: a call with workers < 1 reads no file and creates no directory, and
\* ends by raising, whatever the summary.
C8_FailFast ==
    (pc # "idle" /\ workers < 1) =>
        /\ ~io.read
        /\ ~io.mkdir
        /\ Finished => result.kind = "raise"

\* A call got past the track checks and ended after planning.
Materialized ==
    Finished /\ result.error \in {"none", "CalledProcessError"}

RowsMatchPlan ==
    /\ index_file.exists
    /\ Len(index_file.rows) = Len(prepared_segments)
    /\ \A k \in DOMAIN prepared_segments :
          /\ index_file.rows[k].segment_id = prepared_segments[k].segment_id
          /\ index_file.rows[k].start = prepared_segments[k].start
          /\ index_file.rows[k].duration = prepared_segments[k].duration
          /\ index_file.rows[k].base_text = prepared_segments[k].base_text

\* C9 as claimed: once the segments are materialized or attempted, index.jsonl
\* holds one row per planned segment, also when a cut failed.
C9_IndexAlways == Materialized => RowsMatchPlan

\* C9 as amended: index.jsonl is written only by a call all of whose units of
\* work succeeded, and then holds one row per planned segment; a call in
\* which a cut fails raises and leaves index.jsonl as it was.
C9_IndexOnSuccess ==
    /\ [][index_file' # index_file =>
            /\ pc = "materialize"
            /\ \A i \in DOMAIN unit : unit[i] = "done"
            /\ pc' = "returned"]_vars
    /\ []((pc = "returned" /\ result.error = "none") => RowsMatchPlan)
    /\ []((\E i \in DOMAIN unit : unit[i] = "failed") => pc # "returned")

\* A call raised on a failed cut; the index of the call before is on disk
\* and is not the index of this call's plan.
C9_Witness ==
    /\ pc = "raised"
    /\ result.error = "CalledProcessError"
    /\ index_file.exists
    /\ Len(prepared_segments) >= 1
    /\ Len(index_file.rows) # Len(prepared_segments)

\* C10: for every workers >= 1 and every interleaving, a call in which no cut
\* fails returns, with an audio file and a transcripts.json on disk for every
\* planned segment and an index of one row per planned segment in plan order.
C10_AllMaterialized ==
    /\ pc = "raised" =>
          workers < 1 \/ \E i \in DOMAIN unit : unit[i] = "failed"
    /\ (pc = "returned" /\ Len(tracks) > 0) =>
          /\ \A k \in DOMAIN prepared_segments :
                /\ prepared_segments[k].segment_id \in DOMAIN audio_files
                /\ prepared_segments[k].segment_id \in DOMAIN bundle_files
          /\ RowsMatchPlan
          /\ \A k \in DOMAIN index_file.rows :
                IsSegmentId(index_file.rows[k].segment_id, k - 1)

\* A pool of two workers has materialized two segments.
C10_Witness ==
    /\ pc = "returned"
    /\ workers >= 2
    /\ Len(prepared_segments) >= 2
    /\ \A k \in DOMAIN prepared_segments :
          prepared_segments[k].segment_id \in cut_calls

\* The call in progress was given the thresholds of the call before it (the
\* tracks are the same in every call of a behaviour).
SameThresholds ==
    /\ prev_run.min_duration = min_duration
    /\ prev_run.min_chars = min_chars

Loaded == base_track > 0

\* The available items that name a file on disk, by position in the list.
UsableItems ==
    {i \in DOMAIN transcript_summary.available :
        /\ transcript_summary.available[i].isdict
        /\ Usable(transcript_summary.available[i].path)}

\* C12: the base track is the track keyed "default" whenever the default
\* path was loaded; otherwise it is the first track collected: the
\* auto-language track, or else the first available item on disk.  Only the
\* track of default_path is keyed "default".
C12_BaseTrack ==
    Loaded =>
        /\ \A i \in DOMAIN tracks :
              tracks[i].key = StrDefault =>
                 /\ i = 1
                 /\ Usable(transcript_summary.default_path)
                 /\ tracks[i].path = transcript_summary.default_path
        /\ Usable(transcript_summary.default_path) =>
              /\ tracks[base_track].key = StrDefault
              /\ tracks[base_track].path = transcript_summary.default_path
        /\ ~Usable(transcript_summary.default_path) =>
              /\ base_track = 1
              /\ Usable(transcript_summary.auto_language_path) =>
                    /\ tracks[1].path = transcript_summary.auto_language_path
                    /\ tracks[1].language_code
                          = transcript_summary.auto_language_code
              /\ ~Usable(transcript_summary.auto_language_path) =>
                    LET first == CHOOSE i \in UsableItems :
                                    \A j \in UsableItems : i <= j
                    IN  /\ tracks[1].path
                              = transcript_summary.available[first].path
                        /\ tracks[1].language_code
                              = transcript_summary.available[first].language_code
        /\ ReturnedNormally => result.base_track = tracks[base_track].key

\* No default track (its path names a missing file): the base is the first
\* of several tracks.
C12_Witness ==
    /\ ReturnedNormally
    /\ ~Usable(transcript_summary.default_path)
    /\ transcript_summary.default_path # NoPath
    /\ Len(tracks) >= 2
    /\ base_track = 1
    /\ tracks[base_track].key # StrDefault

UsableReferences ==
    (IF Usable(transcript_summary.default_path) THEN 1 ELSE 0)
    + (IF Usable(transcript_summary.auto_language_path) THEN 1 ELSE 0)
    + Cardinality(UsableItems)

\* C13: the track keys are pairwise distinct and no track is lost to a key
\* collision: there is one track per reference of the summary (default,
\* auto-language, each available item) whose path is non-empty and on disk,
\* and a reference with a null or missing path gives no track.
C13_DistinctKeys ==
    (pc \notin {"idle", "collect"}) =>
        /\ \A i, j \in DOMAIN tracks : i # j => tracks[i].key # tracks[j].key
        /\ Len(tracks) = UsableReferences
        /\ \A i \in DOMAIN tracks : Usable(tracks[i].path)

\* Two available items of the same kind and language are both loaded, next
\* to a reference that names no file.
C13_Witness ==
    /\ ReturnedNormally
    /\ Len(tracks) < (IF transcript_summary.default_path # NoPath THEN 1 ELSE 0)
                     + (IF transcript_summary.auto_language_path # NoPath
                        THEN 1 ELSE 0)
                     + Len(transcript_summary.available)
    /\ \E i, j \in UsableItems :
          /\ i < j
          /\ transcript_summary.available[i] = transcript_summary.available[j]
    /\ \E i, j \in DOMAIN tracks :
          i < j /\ tracks[j].key = tracks[i].key \o <<"_", "2">>

\* process_url has returned its record.
UrlDone == url_call.pc = "done"

\* The segmentation call, when made, ended with an exception or with a
\* summary that carries an error.
SegmentationFailed ==
    url_call.invoked /\ Finished
        /\ (result.kind = "raise" \/ result.error # "none")

\* C14 as claimed: whenever the transcript fetch failed, the segment error
\* is the skipped note.
C14_SkippedNoteAlways ==
    (UrlDone /\ url_call.transcript_error # NoError) =>
        url_call.segment_error = SkippedNote

\* C14 as amended: the status is "success" iff neither stage reported an
\* error and "partial" otherwise; an exception or an error summary of the
\* segmentation becomes the segment error and process_url still returns;
\* after a failed transcript fetch the segmentation is not called, and the
\* segment error is the skipped note when segment generation is enabled and
\* null when it is not.
C14_Status ==
    /\ UrlDone =>
          /\ url_call.status \in {"success", "partial"}
          /\ url_call.status = "success" <=>
                (url_call.transcript_error = NoError
                 /\ url_call.segment_error = NoError)
          /\ SegmentationFailed =>
                /\ url_call.segment_error = result.error
                /\ url_call.status = "partial"
          /\ url_call.transcript_error # NoError =>
                /\ ~url_call.invoked
                /\ url_call.segment_error =
                      IF url_call.generate_segments THEN SkippedNote
                      ELSE NoError
    /\ url_call.invoked => url_call.pc # "raised"
    /\ url_call.transcript_error # NoError => pc = "idle" /\ runs = 0
    /\ (url_call.pc = "metadata" /\ url_call.invoked) =>
          url_call.segment_error = result.error

\* The segmentation raised on a failed cut and process_url returned a
\* partial record.
C14_Witness ==
    /\ UrlDone
    /\ url_call.invoked
    /\ result.kind = "raise"
    /\ result.error = "CalledProcessError"
    /\ url_call.transcript_error = NoError
    /\ url_call.status = "partial"

\* C15 as claimed: the index is append-only: the rows on disk stay, in
\* place, whatever a later call writes.
C15_AppendOnly ==
    [][\A k \in DOMAIN index_file.rows :
          /\ k \in DOMAIN index_file'.rows
          /\ index_file'.rows[k] = index_file.rows[k]]_vars

\* C15 as amended: a call that writes index.jsonl replaces the file: what it
\* leaves is the rows of its own plan, one per planned segment in plan order,
\* and nothing of what was there before.
C15_IndexReplaced ==
    [][index_file' # index_file =>
          /\ index_file'.exists
          /\ Len(index_file'.rows) = Len(prepared_segments)
          /\ \A k \in DOMAIN prepared_segments :
                /\ index_file'.rows[k].segment_id
                      = prepared_segments[k].segment_id
                /\ index_file'.rows[k].base_text
                      = prepared_segments[k].base_text]_vars

\* A call has returned and left fewer rows than the call before it wrote.
C15_Witness ==
    /\ pc = "returned"
    /\ prev_run.returned
    /\ Len(prev_run.plan) >= 2
    /\ index_file.exists
    /\ Len(index_file.rows) = 1
    /\ index_file.rows[1].base_text # prev_run.plan[1].base_text

\* The indices a bundle lists, as a set, and whether the list ascends.
Listed(indices) == {indices[m] : m \in DOMAIN indices}

Ascending(indices) ==
    \A m, n \in DOMAIN indices : m < n => indices[m] < indices[n]

\* The 0-based indices of the entries of track t that overlap segment seg.
Overlapping(t, seg) ==
    {i - 1 : i \in {j \in DOMAIN entries_by_track[t] :
                       InWindow(entries_by_track[t][j], seg.start, seg.end)}}

\* The same, of the entries whose trimmed text is not empty.
OverlappingWithText(t, seg) ==
    {i - 1 : i \in {j \in DOMAIN entries_by_track[t] :
                       /\ InWindow(entries_by_track[t][j], seg.start, seg.end)
                       /\ Len(Strip(entries_by_track[t][j].text)) > 0}}

\* C16 as claimed: entry_indices lists all entries of the track that overlap
\* the segment window, in ascending order.
C16_AllOverlapping ==
    \A k \in DOMAIN prepared_segments, t \in DOMAIN tracks :
       /\ Listed(prepared_segments[k].tracks[t].entry_indices)
             = Overlapping(t, prepared_segments[k])
       /\ Ascending(prepared_segments[k].tracks[t].entry_indices)

\* C16 as amended: entry_indices lists, in ascending order, the entries of the
\* track that overlap the segment window and have a non-empty trimmed text;
\* an overlapping entry without text is not listed.
C16_OverlappingWithText ==
    \A k \in DOMAIN prepared_segments, t \in DOMAIN tracks :
       /\ Listed(prepared_segments[k].tracks[t].entry_indices)
             = OverlappingWithText(t, prepared_segments[k])
       /\ Ascending(prepared_segments[k].tracks[t].entry_indices)

\* A bundle lists one overlapping entry and leaves out another, which has no
\* text.
C16_Witness ==
    /\ ReturnedNormally
    /\ \E k \in DOMAIN prepared_segments, t \in DOMAIN tracks :
          /\ Len(prepared_segments[k].tracks[t].entry_indices) >= 1
          /\ Overlapping(t, prepared_segments[k])
                # OverlappingWithText(t, prepared_segments[k])

SomeCutFailed == \E i \in DOMAIN unit : unit[i] = "failed"

\* C17: when a cut fails the call raises and returns no summary, in the for
\* loop (at once) and in the pool (once the units are over) alike; a summary
\* never carries a cut failure in its error field.
C17_CutFailureRaises ==
    /\ (SomeCutFailed /\ workers = 1) =>
          /\ pc = "raised"
          /\ result.kind = "raise"
          /\ result.error = "CalledProcessError"
    /\ (SomeCutFailed /\ workers > 1) =>
          /\ pc \in {"materialize", "raised"}
          /\ pc = "raised" =>
                result.kind = "raise" /\ result.error = "CalledProcessError"
          /\ pc = "materialize" => result.kind = "none"
    /\ result.kind = "return" =>
          /\ ~SomeCutFailed
          /\ result.error # "CalledProcessError"
          /\ result.error # "none" => Len(tracks) = 0

\* A pool call has raised after one cut failed and another unit finished.
C17_Witness ==
    /\ pc = "raised"
    /\ workers > 1
    /\ result.kind = "raise"
    /\ \E i, j \in DOMAIN unit : unit[i] = "failed" /\ unit[j] = "done"

\* path.parent
Parent(path) == SubSeq(path, 1, Len(path) - 1)

\* The units of work whose state a step changes.
Stepped == {i \in DOMAIN unit : i \in DOMAIN unit' /\ unit'[i] # unit[i]}

\* C18: no two planned segments of a call share an audio path, a bundle path
\* or a segment directory, and no segment's audio path is another's bundle
\* path; every write of an audio file or a bundle is made by one unit of work,
\* to the paths of its own segment.
C18_DisjointPaths ==
    /\ [](\A k, l \in DOMAIN prepared_segments :
            /\ prepared_segments[k].audio_path
                  # prepared_segments[l].transcript_bundle_path
            /\ k # l =>
                  /\ prepared_segments[k].audio_path
                        # prepared_segments[l].audio_path
                  /\ prepared_segments[k].transcript_bundle_path
                        # prepared_segments[l].transcript_bundle_path
                  /\ Parent(prepared_segments[k].audio_path)
                        # Parent(prepared_segments[l].audio_path)
                  /\ Parent(prepared_segments[k].transcript_bundle_path)
                        # Parent(prepared_segments[l].audio_path))
    /\ [][pc = "materialize" /\ pc' = "materialize" =>
            /\ Cardinality(Stepped) = 1
            /\ \A id \in DOMAIN audio_files' \cup DOMAIN bundle_files' :
                  (\/ /\ id \in DOMAIN audio_files'
                      /\ id \in DOMAIN audio_files
                            => audio_files'[id] # audio_files[id]
                   \/ /\ id \in DOMAIN bundle_files'
                      /\ id \in DOMAIN bundle_files
                            => bundle_files'[id] # bundle_files[id])
                  => \A i \in Stepped :
                        /\ prepared_segments[i].segment_id = id
                        /\ prepared_segments[i].audio_path = AudioPath(id)
                        /\ prepared_segments[i].transcript_bundle_path
                              = BundlePath(id)]_vars

\* Two units of a pool call are cutting at the same time.
C18_Witness ==
    /\ pc = "materialize"
    /\ workers > 1
    /\ \E i, j \in DOMAIN unit :
          i # j /\ unit[i] = "cutting" /\ unit[j] = "cutting"

\* The units of work that have started and not ended.
Running == {i \in DOMAIN unit : unit[i] \in {"cutting", "bundling"}}

\* C19: at every moment of a call at most `workers` units of work are in
\* progress, and a unit of work that has started is never started again in
\* that call.
C19_BoundedPool ==
    /\ [](pc = "materialize" => Cardinality(Running) <= workers)
    /\ [][\A i \in DOMAIN unit :
             (unit[i] # "pending" /\ i \in DOMAIN unit') =>
                 /\ unit'[i] # "pending"
                 /\ unit[i] \in {"done", "failed"} => unit'[i] = unit[i]]_vars

\* The pool is full: as many units in progress as workers, and one waiting.
C19_Witness ==
    /\ pc = "materialize"
    /\ workers > 1
    /\ Cardinality(Running) = workers
    /\ \E i \in DOMAIN unit : unit[i] = "pending"

\* C20: with workers == 1 the units run one after another in plan order: a
\* unit has started only if every unit before it is done, so after a failed
\* cut no later segment is cut or gets its bundle in that call.
C20_Sequential ==
    /\ [](workers = 1 =>
            /\ Cardinality(Running) <= 1
            /\ \A k \in DOMAIN unit :
                  unit[k] # "pending" =>
                     \A j \in 1..(k - 1) : unit[j] = "done"
            /\ \A k \in DOMAIN unit :
                  unit[k] = "failed" =>
                     \A l \in (k + 1)..Len(unit) :
                        /\ unit[l] = "pending"
                        /\ prepared_segments[l].segment_id \notin cut_calls
                        /\ prepared_segments[l].segment_id
                              \notin DOMAIN bundle_files)
    /\ [][(workers = 1 /\ SomeCutFailed) =>
             /\ audio_files' = audio_files
             /\ bundle_files' = bundle_files
             /\ cut_calls' = cut_calls
             /\ unit' = unit]_vars

\* The second cut failed: the first segment is done, the third never starts.
C20_Witness ==
    /\ workers = 1
    /\ pc = "raised"
    /\ Len(unit) >= 3
    /\ unit[1] = "done" /\ unit[2] = "failed" /\ unit[3] = "pending"
    /\ prepared_segments[1].segment_id \in DOMAIN bundle_files

\* The base entries the drop rule keeps, by 0-based index.
KeptEntries ==
    {idx \in 0..(Len(base_entries) - 1) : ~RuleDrops(base_entries[idx + 1])}

\* A step that cuts, or writes an audio file or a bundle.
Materializes ==
    \/ cut_calls' # cut_calls /\ cut_calls' # {}
    \/ audio_files' # audio_files
    \/ bundle_files' # bundle_files

\* C21: within a call, a cut or a bundle write happens only when the plan
\* holds an entry for every kept base entry; the plan does not change once
\* materialization has started; and index.jsonl is written only when every
\* unit of work of the call has ended.
C21_StageOrder ==
    /\ [][Materializes =>
            /\ pc = "materialize"
            /\ base_entry_index = Len(base_entries)
            /\ {BaseIndexOf(k) : k \in DOMAIN prepared_segments} = KeptEntries]_vars
    /\ [][(pc = "materialize" /\ pc' # "collect") =>
            prepared_segments' = prepared_segments]_vars
    /\ [][index_file' # index_file =>
            /\ pc = "materialize"
            /\ \A i \in DOMAIN unit : unit[i] \notin {"pending", "cutting", "bundling"}
            /\ prepared_segments' = prepared_segments]_vars

\* A pool call that skipped a base entry has cut its plan and written the
\* index.
C21_Witness ==
    /\ pc = "returned"
    /\ Len(prepared_segments) >= 1
    /\ skipped_count >= 1
    /\ workers > 1
    /\ cut_calls # {}
    /\ index_file.exists

\* The JSON objects of a caption file, in file order.
IsObject(item) == item.isdict

Objects(file) ==
    IF file.kind = "list" THEN SelectSeq(file.items, IsObject) ELSE << >>

\* C22: every loaded entry has duration >= 0: a negative input duration
\* becomes 0, any other is kept, and start is not changed.  Every plan entry
\* has start = max(0, base entry start), the base entry's duration, and
\* end = start + duration >= start.
C22_Timing ==
    /\ Loaded =>
          \A t \in DOMAIN tracks :
             LET raw == Objects(track_files[tracks[t].path])
             IN  /\ Len(entries_by_track[t]) = Len(raw)
                 /\ \A i \in DOMAIN raw :
                       /\ entries_by_track[t][i].duration >= 0
                       /\ raw[i].duration >= 0 =>
                             entries_by_track[t][i].duration = raw[i].duration
                       /\ raw[i].duration < 0 =>
                             entries_by_track[t][i].duration = 0
                       /\ entries_by_track[t][i].start = raw[i].start
    /\ \A k \in DOMAIN prepared_segments :
          LET seg == prepared_segments[k]
              base == base_entries[BaseIndexOf(k) + 1]
          IN  /\ seg.start >= 0
              /\ seg.start >= base.start
              /\ seg.start = 0 \/ seg.start = base.start
              /\ seg.duration = base.duration
              /\ seg.duration >= 0
              /\ seg.end = seg.start + seg.duration
              /\ seg.end >= seg.start

\* The plan holds an entry whose negative start was raised to 0 and an entry
\* whose negative duration was loaded as 0.
C22_Witness ==
    /\ ReturnedNormally
    /\ \E k \in DOMAIN prepared_segments :
          /\ base_entries[BaseIndexOf(k) + 1].start < 0
          /\ prepared_segments[k].start = 0
    /\ \E k \in DOMAIN prepared_segments :
          /\ prepared_segments[k].duration = 0
          /\ Objects(track_files[tracks[base_track].path])[BaseIndexOf(k) + 1]
                .duration < 0

\* sub occurs in text (Python's `sub in text`).
Contains(text, sub) ==
    \E i \in 1..(Len(text) - Len(sub) + 1) :
       SubSeq(text, i, i + Len(sub) - 1) = sub

\* C23: for every kept segment, the bundle of the base track holds the
\* segment's own source entry: base_entry_index is one of the base track's
\* entry_indices, and the base track's text contains base_text.
C23_OwnEntry ==
    Planning =>
        \A k \in DOMAIN prepared_segments :
           LET seg == prepared_segments[k]
           IN  /\ seg.base_entry_index
                     \in Listed(seg.tracks[base_track].entry_indices)
               /\ Contains(seg.tracks[base_track].text, seg.base_text)

\* C24: after successful calls with overwrite=False over one output root,
\* the audio file of every segment of the latest plan was cut with the start
\* and duration that the segment's transcripts.json and index row record.
C24_AudioMatchesPlan ==
    ReturnedNormally =>
        \A k \in DOMAIN prepared_segments :
           LET id == prepared_segments[k].segment_id
           IN  /\ id \in DOMAIN audio_files
               /\ id \in DOMAIN bundle_files
               /\ audio_files[id].start = bundle_files[id].timing.start
               /\ audio_files[id].duration = bundle_files[id].timing.duration
               /\ audio_files[id].start = index_file.rows[k].start
               /\ audio_files[id].duration = index_file.rows[k].duration

\* C25: after calls over one output root that end with a successful call,
\* the segments with an audio file, a bundle or a directory under the root
\* are exactly the segments index.jsonl lists.
C25_NoStaleSegments ==
    ReturnedNormally =>
        LET indexed == {index_file.rows[k].segment_id :
                           k \in DOMAIN index_file.rows}
        IN  /\ DOMAIN audio_files = indexed
            /\ DOMAIN bundle_files = indexed
            /\ segment_dirs = indexed

\* C26: with workers > 1 a failed unit of work cancels no other: when the
\* exception leaves the call every planned segment's unit has ended, done or
\* failed, the done ones with their audio and bundle on disk; and the call
\* does not write index.jsonl.
C26_PoolRunsAll ==
    /\ []((pc = "raised" /\ workers > 1) =>
            /\ SomeCutFailed
            /\ \A i \in DOMAIN unit :
                  /\ unit[i] \in {"done", "failed"}
                  /\ unit[i] = "done" =>
                        /\ prepared_segments[i].segment_id \in DOMAIN audio_files
                        /\ prepared_segments[i].segment_id \in DOMAIN bundle_files
            /\ ~index_file.exists)
    /\ [][(workers > 1 /\ SomeCutFailed) => index_file' = index_file]_vars

\* The first cut failed; the unit that waited for a free worker ran all the
\* same, and is done.
C26_Witness ==
    /\ pc = "raised"
    /\ workers > 1
    /\ Len(unit) > workers
    /\ unit[1] = "failed"
    /\ unit[Len(unit)] = "done"
    /\ prepared_segments[Len(unit)].segment_id \in DOMAIN bundle_files

\* The audio file and the bundle of unit i's segment are on disk, the bundle
\* as unit i wrote it.
OnDisk(i, audio, bundles) ==
    LET id == prepared_segments[i].segment_id
    IN  /\ id \in DOMAIN audio
        /\ id \in DOMAIN bundles
        /\ bundles[id] = Bundle(prepared_segments[i])

\* C27: no step of a call in which a cut has failed touches index.jsonl or
\* takes away the files of a unit that is done; when the call has raised, the
\* index of the call before, if that call returned, is on disk with its rows,
\* and so are the audio file and the bundle of every unit that is done.
C27_FailureKeepsFiles ==
    /\ [][SomeCutFailed' =>
            /\ index_file' = index_file
            /\ \A i \in DOMAIN unit :
                  unit[i] = "done" =>
                     /\ unit'[i] = "done"
                     /\ OnDisk(i, audio_files', bundle_files')]_vars
    /\ []((pc = "raised" /\ SomeCutFailed) =>
            /\ prev_run.returned =>
                  /\ index_file.exists
                  /\ index_file.rows = PlanRows(prev_run.plan)
            /\ \A i \in DOMAIN unit :
                  unit[i] = "done" => OnDisk(i, audio_files, bundle_files))

\* A call with other thresholds than the call before, which returned, has
\* raised after one of its units was done: the index is the earlier call's.
C27_Witness ==
    /\ pc = "raised"
    /\ prev_run.returned
    /\ index_file.exists
    /\ index_file.rows = PlanRows(prev_run.plan)
    /\ index_file.rows # PlanRows(prepared_segments)
    /\ \E i, j \in DOMAIN unit :
          /\ unit[i] = "done"
          /\ OnDisk(i, audio_files, bundle_files)
          /\ unit[j] = "failed"

(* ------------------ specifications of the callers ------------------- *)
\* The callers seen alone: no caption file, and no segmentation call.
InitCallers ==
    /\ InitCall
    /\ track_files = [p \in {"d"} |-> MissingFile]
    /\ transcript_summary = Summary(NoPath, NoPath, NoneStr, << >>)

\* One process_urls_batch call over up to MaxUrls URLs, which may repeat, in
\* the for loop (video_workers 0 and 1) and in pools of 2 to MaxWorkers + 1
\* threads.
NextBatch ==
    \/ \E urls \in SeqsUpTo(Urls, MaxUrls), video_workers \in 0..(MaxWorkers + 1) :
          process_urls_batch(urls, video_workers)
    \/ \E i \in 1..MaxUrls : StartSingle(i)
    \/ \E i \in 1..MaxUrls : EndSingle(i)
    \/ \E i \in 1..MaxUrls : StoreRecord(i)
    \/ BatchReturn

SpecBatch == InitCallers /\ [][NextBatch]_vars

\* main: resolve_runtime with worker arguments from -1 on and every CPU
\* count up to MaxCpu, then, as process_urls_batch does for a URL, process_url
\* with the segment_workers it returned.
NextRuntime ==
    \/ \E video_workers_arg \in -1..MaxWorkers,
          segment_workers_arg \in -1..MaxWorkers, os_cpu_count \in 0..MaxCpu :
          resolve_runtime(video_workers_arg, segment_workers_arg, os_cpu_count)
    \/ /\ runtime.kind = "return"
       /\ process_url(TRUE, FALSE, 1, 1, runtime.segment_workers)
    \/ FetchInfoAndAudio
    \/ FetchTranscripts
    \/ SegmentStage
    \/ SegmentReturns
    \/ WriteRecord
    \/ CollectTracks
    \/ LoadTracks
    \/ CheckWorkers
    \/ PlanStep
    \/ BeginMaterialize
    \/ \E i \in 1..Len(unit) : StartUnit(i)
    \/ \E i \in 1..Len(unit) : CutOk(i)
    \/ \E i \in 1..Len(unit) : WriteBundle(i)
    \/ WriteIndex

SpecRuntime == Init /\ [][NextRuntime]_vars

\* One download_audio call, the target file there or not, every outcome of
\* every attempt.
NextDownload ==
    \/ \E target_exists \in BOOLEAN, ow \in BOOLEAN :
          download_audio(target_exists, ow)
    \/ Attempt
    \/ Produce

SpecDownload == InitCallers /\ [][NextDownload]_vars

\* C28: process_urls_batch returns one record per input URL, in input order,
\* whatever video_workers is and in whatever order the calls complete; the
\* record of a URL whose processing raised has status "failed", that of any
\* other URL the status process_url gave it; and every URL was processed.
C28_OneRecordPerUrl ==
    batch_call.pc = "returned" =>
        /\ Len(batch_call.returned) = Len(batch_call.urls)
        /\ \A i \in DOMAIN batch_call.urls :
              /\ batch_call.task[i] = "stored"
              /\ batch_call.returned[i] = batch_call.future[i]
              /\ batch_call.returned[i].url = batch_call.urls[i]
              /\ batch_call.raised[i] <=> batch_call.returned[i].status = "failed"
              /\ ~batch_call.raised[i] =>
                    batch_call.returned[i].status \in {"success", "partial"}

\* A pool call over three URLs has returned; the first URL's processing
\* raised, the others' did not, and the first record stored was not the
\* first URL's.
C28_Witness ==
    /\ batch_call.pc = "returned"
    /\ batch_call.video_workers > 1
    /\ Len(batch_call.urls) = 3
    /\ batch_call.order[1] # 1
    /\ batch_call.raised[1]
    /\ ~batch_call.raised[2]
    /\ batch_call.returned[1].status = "failed"
    /\ batch_call.returned[2].status = "success"
    /\ batch_call.returned[3].status = "partial"

\* C29: resolve_runtime raises ValueError exactly when a worker argument is
\* negative; otherwise it returns video_workers >= 1 and segment_workers >= 1,
\* a positive argument as given, and for 0 video_workers = max(1, cpu_count)
\* and segment_workers = max(1, cpu_count div video_workers); and the
\* segmentation called with that segment_workers never fails its workers
\* check.
C29_WorkersAtLeastOne ==
    /\ runtime.kind = "ValueError" <=>
          /\ runtime.kind # "none"
          /\ (runtime.video_workers_arg < 0 \/ runtime.segment_workers_arg < 0)
    /\ runtime.kind = "return" =>
          /\ runtime.cpu_count >= 1
          /\ runtime.os_cpu_count > 0 => runtime.cpu_count = runtime.os_cpu_count
          /\ runtime.video_workers >= 1
          /\ runtime.segment_workers >= 1
          /\ runtime.video_workers_arg > 0 =>
                runtime.video_workers = runtime.video_workers_arg
          /\ runtime.video_workers_arg = 0 =>
                runtime.video_workers = runtime.cpu_count
          /\ runtime.segment_workers_arg > 0 =>
                runtime.segment_workers = runtime.segment_workers_arg
          /\ runtime.segment_workers_arg = 0 =>
                /\ runtime.segment_workers * runtime.video_workers
                      <= Max(runtime.cpu_count, runtime.video_workers)
                /\ (runtime.segment_workers + 1) * runtime.video_workers
                      > runtime.cpu_count
    /\ url_call.pc # "idle" =>
          /\ runtime.kind = "return"
          /\ workers = runtime.segment_workers
          /\ workers >= 1
          /\ result.error # "workers must be >= 1"

\* More video workers were asked for than there are CPUs and segment_workers
\* was left to resolve_runtime, which gave 1; the segmentation called with it
\* has passed its workers check and returned.
C29_Witness ==
    /\ runtime.kind = "return"
    /\ runtime.segment_workers_arg = 0
    /\ runtime.video_workers > runtime.cpu_count
    /\ runtime.segment_workers = 1
    /\ url_call.invoked
    /\ pc = "returned"
    /\ Len(prepared_segments) >= 1

\* The (strategy, format) pair of the k-th attempt of a call.
PairOf(k) ==
    <<((k - 1) \div Len(format_attempts)) + 1,
      ((k - 1) % Len(format_attempts)) + 1>>

\* C30: a call that finds the target file with overwrite false makes no
\* attempt; otherwise the attempts go through the (strategy, format) pairs in
\* order, at most 2 x 4 of them; every attempt but the last failed with a
\* format-unavailable error; a success ends the attempts; a call whose last
\* attempt failed has raised that attempt's error and returned no path.
C30_RetryLoop ==
    LET n == Len(download.attempts)
    IN  /\ (download.target_exists /\ ~download.overwrite) =>
              /\ n = 0
              /\ download.pc \in {"idle", "returned"}
        /\ (download.pc = "returned" /\ n = 0) =>
              download.target_exists /\ ~download.overwrite
        /\ n <= Len(strategy_opts) * Len(format_attempts)
        /\ Len(strategy_opts) * Len(format_attempts) = 8
        /\ Len(download.outcomes) = n
        /\ \A k \in 1..n : download.attempts[k] = PairOf(k)
        /\ \A k \in 1..(n - 1) : download.outcomes[k] = "format_unavailable"
        /\ download.finished <=> (n > 0 /\ download.outcomes[n] = "ok")
        /\ (n > 0 /\ download.outcomes[n] = "ok") =>
              download.pc \in {"produced", "returned", "raised"}
        /\ (n > 0 /\ download.outcomes[n] \notin {"ok", "format_unavailable"}) =>
              /\ download.pc = "raised"
              /\ download.error = download.outcomes[n]
        /\ (n > 0 /\ download.outcomes[n] = "format_unavailable") =>
              IF n = Len(strategy_opts) * Len(format_attempts)
              THEN /\ download.pc = "raised"
                   /\ download.error = "format_unavailable"
                   /\ download.path = "none"
              ELSE download.pc = "attempt"
        /\ download.pc = "returned" => download.path # "none"
        /\ download.pc = "raised" => download.path = "none"

\* Every pair was tried and failed with a format-unavailable error: the call
\* raised the last one.
C30_Witness ==
    /\ download.pc = "raised"
    /\ Len(download.attempts) = 8
    /\ download.attempts[5] = <<2, 1>>
    /\ download.attempts[8] = <<2, 4>>
    /\ download.error = "format_unavailable"

====
